---- MODULE Spec2Model ----
(***************************************************************************)
(* A model of itk::fem::Solver (Code/Numerics/FEM/itkFEMSolver.cxx):       *)
(* ReadAnyObjectFromStream, GenerateGFN, AssembleK and AssembleF.          *)
(*                                                                         *)
(* The solver's containers hold references to Node, Element and Load       *)
(* objects.  The objects are drawn from a fixed pool (Nodes, Elems, Loads) *)
(* and keep their fields (an element's DOF table, a constraint's Index)    *)
(* while they are outside the containers, as heap objects do.             *)
(* Floating point values are modelled by integers.                         *)
(***************************************************************************)
EXTENDS Integers, Sequences, FiniteSets, TLC

VARIABLES
    node,        \* Solver::node, the set of Node objects in the container
    el,          \* Solver::el, the Element container (sequence of element ids)
    load,        \* Solver::load, the Load container (sequence of load ids)
    m_elements,  \* Node::m_elements, per node the set of incident elements
    dof,         \* per element its local -> global DOF table
    DOFCounter,  \* Element's static global DOF counter
    NGFN,        \* Solver::NGFN
    NMFC,        \* Solver::NMFC
    Index,       \* LoadBCMFC::Index, per constraint load
    ls,          \* the linear system behind m_ls: [order, K, F]
    calls,       \* the calls made on m_ls by the last operation, in order
    err,         \* the exception the last operation ended with, or "none"
    last,        \* the last operation: [op, dim]
    pre,         \* the values [ls, NMFC, Index, NGFN] the last operation started from
    gfnDone,     \* GenerateGFN has run and el is unchanged since
    kDone,       \* AssembleK has assembled the matrix without error
    edits,       \* number of container edits made so far
    stream,      \* the characters of the std::istream f
    pos,         \* the stream's get position, 0-based (f.tellg())
    eofbit,      \* the stream's eofbit
    failbit,     \* the stream's failbit
    rd           \* the last ReadAnyObjectFromStream call:
                 \* [outcome, entry, l, cls, info]

vars == <<node, el, load, m_elements, dof, DOFCounter, NGFN, NMFC, Index, ls,
          calls, err, last, pre, gfnDone, kDone, edits, stream, pos, eofbit, failbit, rd>>

solverVars == <<node, el, load, m_elements, dof, DOFCounter, NGFN, NMFC, Index,
                ls, calls, err, last, pre, gfnDone, kDone,
                edits>>

streamVars == <<stream, pos, eofbit, failbit, rd>>

----------------------------------------------------------------------------
(* Bounds of the model. *)

MaxEls == 2       \* longest Element container
MaxLoads == 2     \* longest Load container
MaxEdits == 1     \* container edits per behaviour of SpecEdit
MaxPieces == 2    \* pieces a stream is made of
MaxFieldChars == 2  \* characters an object's Read takes off the stream

----------------------------------------------------------------------------
(* The object pool. *)

Nodes == {1, 2, 3}
Elems == {1, 2, 3}
Loads == {1, 2, 3, 4, 5, 6, 7}

\* LoadBCMFC::Index before AssembleK has assigned it: the constructor leaves
\* it without a value.
Unassigned == -1

\* DOF id of a DOF that has no global number (Element::ClearDegreesOfFreedom).
InvalidDegreeOfFreedomID == 2147483647

\* Element::GetPoint: the nodes of an element, in point order (point 0 first).
ElPoints(e) == CASE e = 1 -> <<1, 2>>
                 [] e = 2 -> <<2, 3>>
                 [] e = 3 -> <<3>>

\* Element::GetNumberOfPoints
GetNumberOfPoints(e) == Len(ElPoints(e))

\* Element::GetNumberOfDegreesOfFreedomPerPoint
GetNumberOfDegreesOfFreedomPerPoint(e) == IF e = 3 THEN 2 ELSE 1

\* Element::GetNumberOfDegreesOfFreedom
GetNumberOfDegreesOfFreedom(e) ==
    GetNumberOfPoints(e) * GetNumberOfDegreesOfFreedomPerPoint(e)

\* Element::Ke, the element stiffness matrix, rows and columns from 0.
Ke(e, j, k) == CASE e = 1 -> (IF j = k THEN 1 ELSE -1)
                 [] e = 2 -> (IF j = k THEN 2 ELSE 0)
                 [] e = 3 -> (IF j = k THEN 3 ELSE 1)

\* The Load subclasses of the pool; "Load" is a variant the solver does not know.
LoadClass(l) == CASE l \in {1, 2} -> "LoadNode"
                  [] l \in {3, 4} -> "LoadElement"
                  [] l \in {5, 6} -> "LoadBCMFC"
                  [] OTHER        -> "Load"

MFCs == {l \in Loads : LoadClass(l) = "LoadBCMFC"}

\* LoadNode::m_element, LoadNode::m_pt, LoadNode::F
NodeLoadElement(l) == 3
NodeLoadPt(l) == 0
NodeLoadF(l) == IF l = 1 THEN <<1, 2, 3, 4>> ELSE <<1, 2, 3>>

\* LoadElement::el, the explicit target list (empty: every element)
LoadElementEl(l) == IF l = 3 THEN <<>> ELSE <<2>>

\* LoadBCMFC::lhs, the terms, and LoadBCMFC::rhs
MFCLhs(l) == IF l = 5
             THEN << [m_element |-> 1, dof |-> 0, value |-> 1] >>
             ELSE << [m_element |-> 1, dof |-> 1, value |-> 2],
                     [m_element |-> 2, dof |-> 0, value |-> 3],
                     [m_element |-> 2, dof |-> 1, value |-> 4] >>
MFCRhs(l) == IF l = 5 THEN <<0, 9>> ELSE <<6, 8>>

\* Element::Fe(load): the element's force vector for an element load,
\* Ne entries per dimension.
Fe(e, l, i) == 10 * l + e + i


\* The dimensions AssembleF is called with; every load of the pool carries
\* data for each of them.
Dims == {0, 1}

\* All sequences without repetition over S of length at most n.
SeqsUpTo(S, n) ==
    {q \in UNION {[1..k -> S] : k \in 0..n} :
        \A i, j \in 1..Len(q) : i # j => q[i] # q[j]}

Range(q) == {q[i] : i \in 1..Len(q)}

----------------------------------------------------------------------------
(* Element's DOF table and the global DOF counter. *)

\* Element::ClearDegreesOfFreedom: every local DOF loses its global number.
ClearDegreesOfFreedom(e) ==
    [i \in 1..GetNumberOfDegreesOfFreedom(e) |-> InvalidDegreeOfFreedomID]

\* Element::GetDegreeOfFreedom(local), local from 0, in DOF tables d.
GetDegreeOfFreedom(d, e, local) == d[e][local + 1]

\* Element::GetDegreeOfFreedomAtPoint(pt, comp)
GetDegreeOfFreedomAtPoint(d, e, pt, comp) ==
    GetDegreeOfFreedom(d, e, pt * GetNumberOfDegreesOfFreedomPerPoint(e) + comp)

\* Element::ResetGlobalDOFCounter: the counter holds the last number given out.
ResetGlobalDOFCounter == -1

\* Element::CreateNewGlobalDOF
CreateNewGlobalDOF(c) == c + 1

\* The local DOF slots (e2, local) of elements registered at node n that stand
\* for displacement component comp of n, other than element e's own.
SharedSlots(m, e, n, comp) ==
    {s \in UNION {{<<e2, i>> : i \in 0..(GetNumberOfPoints(e2) - 1)} :
                     e2 \in m[n] \ {e}} :
        /\ ElPoints(s[1])[s[2] + 1] = n
        /\ comp < GetNumberOfDegreesOfFreedomPerPoint(s[1])}

SlotLocal(s, comp) == s[2] * GetNumberOfDegreesOfFreedomPerPoint(s[1]) + comp

\* Element::LinkDegreesOfFreedom for local slot i of element e, on the
\* state st = [dof, counter]: reuse the number an element sharing the node and
\* component already has, else take the next counter value and hand it to
\* every element sharing the node and component.
LinkSlot(m, st, e, i) ==
    LET ndpp  == GetNumberOfDegreesOfFreedomPerPoint(e)
        n     == ElPoints(e)[(i \div ndpp) + 1]
        comp  == i % ndpp
        slots == SharedSlots(m, e, n, comp)
        have  == {s \in slots :
                    st.dof[s[1]][SlotLocal(s, comp) + 1] # InvalidDegreeOfFreedomID}
    IN  IF have # {}
        THEN LET s == CHOOSE x \in have : \A y \in have : x[1] <= y[1]
             IN  [st EXCEPT !.dof[e][i + 1] = st.dof[s[1]][SlotLocal(s, comp) + 1]]
        ELSE LET g == CreateNewGlobalDOF(st.counter)
             IN  [dof |-> [x \in Elems |->
                            [k \in 1..GetNumberOfDegreesOfFreedom(x) |->
                               IF \/ (x = e /\ k = i + 1)
                                  \/ \E s \in slots :
                                        s[1] = x /\ SlotLocal(s, comp) + 1 = k
                               THEN g ELSE st.dof[x][k]]],
                  counter |-> g]

RECURSIVE LinkSlots(_, _, _, _)
LinkSlots(m, st, e, i) ==
    IF i >= GetNumberOfDegreesOfFreedom(e) THEN st
    ELSE LinkSlots(m, LinkSlot(m, st, e, i), e, i + 1)

\* Element::LinkDegreesOfFreedom
LinkDegreesOfFreedom(m, st, e) == LinkSlots(m, st, e, 0)

----------------------------------------------------------------------------
(* Solver::GenerateGFN *)

\* Lines 257-260: the back-reference sets of the nodes in the node container
\* are emptied.
ClearNodeElements(m) == [n \in Nodes |-> IF n \in node THEN {} ELSE m[n]]

\* GenerateGFN with the loop of lines 270-274 left out.
RegisterNone(m) == m

\* Lines 270-274: every element of the container is entered at each of its
\* points.
RegisterElements(m) ==
    [n \in Nodes |-> m[n] \cup {e \in Range(el) : n \in Range(ElPoints(e))}]

\* Lines 263-266: the DOF tables of the elements of the container are cleared.
ClearedTables(d) ==
    [e \in Elems |-> IF e \in Range(el) THEN ClearDegreesOfFreedom(e) ELSE d[e]]

\* Lines 287-291: the elements are linked in container order.
RECURSIVE LinkAll(_, _, _)
LinkAll(m, st, i) ==
    IF i > Len(el) THEN st
    ELSE LinkAll(m, LinkDegreesOfFreedom(m, st, el[i]), i + 1)

\* Line 293
NumberOfGFN(counter) == counter + 1

\* Lines 294-296: the exception GenerateGFN ends with.  Both branches fall
\* off the end of the function.
GenerateGFNOutcome(n) == IF n > 0 THEN "none" ELSE "none"

\* The whole of GenerateGFN: [m_elements, dof, counter, NGFN, err].
GenerateGFNResult ==
    LET m  == RegisterElements(ClearNodeElements(m_elements))
        st == LinkAll(m, [dof |-> ClearedTables(dof),
                          counter |-> ResetGlobalDOFCounter], 1)
        n  == NumberOfGFN(st.counter)
    IN  [m_elements |-> m, dof |-> st.dof, counter |-> st.counter,
         NGFN |-> n, err |-> GenerateGFNOutcome(n)]

----------------------------------------------------------------------------
(* The linear system wrapper behind m_ls.  K and F hold the entries that    *)
(* have been written; an entry never written reads as zero.                 *)

NoEntries == [x \in {} |-> 0]

NoEntity == <<"none", 0>>

MatGet(L, i, j) == IF <<i, j>> \in DOMAIN L.K THEN L.K[<<i, j>>] ELSE 0
VecGet(L, i) == IF i \in DOMAIN L.F THEN L.F[i] ELSE 0

SetSystemOrder(L, n) == [L EXCEPT !.order = n]
InitializeMatrix(L) == [L EXCEPT !.K = NoEntries]
InitializeVector(L) == [L EXCEPT !.F = NoEntries]
SetMatrixValue(L, i, j, v) ==
    [L EXCEPT !.K = [p \in DOMAIN L.K \cup {<<i, j>>} |->
                        IF p = <<i, j>> THEN v ELSE L.K[p]]]
AddMatrixValue(L, i, j, v) == SetMatrixValue(L, i, j, MatGet(L, i, j) + v)
SetVectorValue(L, i, v) ==
    [L EXCEPT !.F = [p \in DOMAIN L.F \cup {i} |-> IF p = i THEN v ELSE L.F[p]]]
AddVectorValue(L, i, v) == SetVectorValue(L, i, VecGet(L, i) + v)

\* One call on m_ls made for entity ent, applied to the assembly state
\* S = [ls, calls, err] and entered in the call log.
Call(S, op, i, j, v, ent) ==
    [S EXCEPT
       !.ls = CASE op = "SetSystemOrder"   -> SetSystemOrder(S.ls, i)
                [] op = "InitializeMatrix" -> InitializeMatrix(S.ls)
                [] op = "InitializeVector" -> InitializeVector(S.ls)
                [] op = "AddMatrixValue"   -> AddMatrixValue(S.ls, i, j, v)
                [] op = "SetMatrixValue"   -> SetMatrixValue(S.ls, i, j, v)
                [] op = "AddVectorValue"   -> AddVectorValue(S.ls, i, v)
                [] op = "SetVectorValue"   -> SetVectorValue(S.ls, i, v),
       !.calls = Append(S.calls, [op |-> op, i |-> i, j |-> j, v |-> v, ent |-> ent])]

\* throw FEMExceptionSolution(...), raised while entity ent is processed.
Throw(S, what, ent) == [S EXCEPT !.err = what, !.at = ent]

----------------------------------------------------------------------------
(* Solver::AssembleK *)

\* The guard of line 307 written with < for <=.
NothingToDoKStrict(n) == n < 0

\* Line 307
NothingToDoK(n) == n <= 0

\* Lines 324-328 with NMFC increased before it is stored in Index.
CollectOneLate(C, l) ==
    [NMFC     |-> C.NMFC + 1,
     Index    |-> [C.Index EXCEPT ![l] = C.NMFC + 1],
     mfcLoads |-> Append(C.mfcLoads, l)]

\* Lines 324-328: constraint l is given the next ordinal and kept for later;
\* C = [NMFC, Index, mfcLoads].
CollectOne(C, l) ==
    [NMFC     |-> C.NMFC + 1,
     Index    |-> [C.Index EXCEPT ![l] = C.NMFC],
     mfcLoads |-> Append(C.mfcLoads, l)]

\* Lines 321-330, from load i of the container on.
RECURSIVE CollectMFC(_, _)
CollectMFC(C, i) ==
    IF i > Len(load) THEN C
    ELSE IF LoadClass(load[i]) = "LoadBCMFC"
         THEN CollectMFC(CollectOne(C, load[i]), i + 1)
         ELSE CollectMFC(C, i + 1)

\* Lines 360-361
IllegalEntry(e, j, k) ==
    \/ GetDegreeOfFreedom(dof, e, j) >= NGFN
    \/ GetDegreeOfFreedom(dof, e, k) >= NGFN

\* Lines 360-375 with SetMatrixValue in the place of AddMatrixValue.
ElementEntryOverwrite(S, e, j, k) ==
    IF IllegalEntry(e, j, k)
    THEN Throw(S, "Illegal GFN!", <<"el", e>>)
    ELSE IF Ke(e, j, k) # 0
         THEN Call(S, "SetMatrixValue", GetDegreeOfFreedom(dof, e, j),
                   GetDegreeOfFreedom(dof, e, k), Ke(e, j, k), <<"el", e>>)
         ELSE S

\* Lines 360-375: entry (j, k) of element e's stiffness matrix.
ElementEntry(S, e, j, k) ==
    IF IllegalEntry(e, j, k)
    THEN Throw(S, "Illegal GFN!", <<"el", e>>)
    ELSE IF Ke(e, j, k) # 0
         THEN Call(S, "AddMatrixValue", GetDegreeOfFreedom(dof, e, j),
                   GetDegreeOfFreedom(dof, e, k), Ke(e, j, k), <<"el", e>>)
         ELSE S

\* Lines 354-379: rows j and columns k of element e, entry p = j*Ne + k on.
RECURSIVE ElementEntries(_, _, _)
ElementEntries(S, e, p) ==
    LET Ne == GetNumberOfDegreesOfFreedom(e)
    IN  IF S.err # "none" \/ p >= Ne * Ne THEN S
        ELSE ElementEntries(ElementEntry(S, e, p \div Ne, p % Ne), e, p + 1)

\* Lines 348-381
RECURSIVE AssembleElements(_, _)
AssembleElements(S, i) ==
    IF S.err # "none" \/ i > Len(el) THEN S
    ELSE AssembleElements(ElementEntries(S, el[i], 0), i + 1)

\* Lines 396-405 without the check of lines 399-402.
MFCTermUnchecked(S, c, ix, q) ==
    LET gfn == GetDegreeOfFreedom(dof, q.m_element, q.dof)
    IN  Call(Call(S, "SetMatrixValue", gfn, NGFN + ix, q.value, <<"load", c>>),
             "SetMatrixValue", NGFN + ix, gfn, q.value, <<"load", c>>)

\* Lines 396-405 without the second SetMatrixValue of line 405.
MFCTermOneSided(S, c, ix, q) ==
    LET gfn == GetDegreeOfFreedom(dof, q.m_element, q.dof)
    IN  IF gfn >= NGFN
        THEN Throw(S, "Illegal GFN!", <<"load", c>>)
        ELSE Call(S, "SetMatrixValue", gfn, NGFN + ix, q.value, <<"load", c>>)

\* Lines 396-405: term q of constraint c, whose ordinal is ix.
MFCTerm(S, c, ix, q) ==
    LET gfn == GetDegreeOfFreedom(dof, q.m_element, q.dof)
    IN  IF gfn >= NGFN
        THEN Throw(S, "Illegal GFN!", <<"load", c>>)
        ELSE Call(Call(S, "SetMatrixValue", gfn, NGFN + ix, q.value, <<"load", c>>),
                  "SetMatrixValue", NGFN + ix, gfn, q.value, <<"load", c>>)

\* Lines 393-407
RECURSIVE MFCTerms(_, _, _, _)
MFCTerms(S, c, ix, t) ==
    IF S.err # "none" \/ t > Len(MFCLhs(c)) THEN S
    ELSE MFCTerms(MFCTerm(S, c, ix, MFCLhs(c)[t]), c, ix, t + 1)

\* Lines 390-408
RECURSIVE AssembleMFCs(_, _, _, _)
AssembleMFCs(S, mfcLoads, idx, i) ==
    IF S.err # "none" \/ i > Len(mfcLoads) THEN S
    ELSE AssembleMFCs(MFCTerms(S, mfcLoads[i], idx[mfcLoads[i]], 1),
                      mfcLoads, idx, i + 1)

\* Lines 342-343
SizeMatrix(S, n) ==
    Call(Call(S, "SetSystemOrder", n, 0, 0, NoEntity),
         "InitializeMatrix", 0, 0, 0, NoEntity)

\* The whole of AssembleK: [NMFC, Index, ls, calls, err, at].
AssembleKResult ==
    LET S0 == [ls |-> ls, calls |-> <<>>, err |-> "none", at |-> NoEntity]
    IN  IF NothingToDoK(NGFN)
        THEN [NMFC |-> NMFC, Index |-> Index, S |-> S0]
        ELSE LET C == CollectMFC([NMFC |-> 0, Index |-> Index, mfcLoads |-> <<>>], 1)
                 S1 == SizeMatrix(S0, NGFN + C.NMFC)
                 S2 == AssembleElements(S1, 1)
                 S3 == AssembleMFCs(S2, C.mfcLoads, C.Index, 1)
             IN  [NMFC |-> C.NMFC, Index |-> C.Index, S |-> S3]

----------------------------------------------------------------------------
(* Solver::AssembleF *)

\* Line 421
NothingToDoF(n) == n <= 0

\* Line 450
IllegalSize(l) ==
    Len(NodeLoadF(l)) % GetNumberOfDegreesOfFreedomPerPoint(NodeLoadElement(l)) # 0

\* Lines 459-470: DOF slot d of the point a nodal load acts on.
NodeLoadSlot(S, l, d, dim) ==
    LET e   == NodeLoadElement(l)
        gfn == GetDegreeOfFreedomAtPoint(dof, e, NodeLoadPt(l), d)
    IN  IF gfn >= NGFN
        THEN Throw(S, "Illegal GFN!", <<"load", l>>)
        ELSE Call(S, "AddVectorValue", gfn, 0,
                  NodeLoadF(l)[d + GetNumberOfDegreesOfFreedomPerPoint(e) * dim + 1],
                  <<"load", l>>)

\* Lines 456-471
RECURSIVE NodeLoadSlots(_, _, _, _)
NodeLoadSlots(S, l, d, dim) ==
    IF S.err # "none" \/ d >= GetNumberOfDegreesOfFreedomPerPoint(NodeLoadElement(l))
    THEN S
    ELSE NodeLoadSlots(NodeLoadSlot(S, l, d, dim), l, d + 1, dim)

\* Lines 446-475 with the size check of line 450 made after the first slot
\* has been copied.
NodeLoadLateCheck(S, l, dim) ==
    IF IllegalSize(l)
    THEN LET S1 == NodeLoadSlot(S, l, 0, 0)
         IN  IF S1.err # "none" THEN S1
             ELSE Throw(S1, "Illegal size of a force vector in LoadNode object!",
                        <<"load", l>>)
    ELSE NodeLoadSlots(S, l, 0, dim)

\* Lines 446-475
NodeLoad(S, l, dim) ==
    IF IllegalSize(l)
    THEN Throw(S, "Illegal size of a force vector in LoadNode object!", <<"load", l>>)
    ELSE NodeLoadSlots(S, l, 0, dim)

\* Lines 498-508 and 522-532: local DOF j of element e under element load l.
ElementLoadSlot(S, l, e, j, dim) ==
    IF GetDegreeOfFreedom(dof, e, j) >= NGFN
    THEN Throw(S, "Illegal GFN!", <<"load", l>>)
    ELSE Call(S, "AddVectorValue", GetDegreeOfFreedom(dof, e, j), 0,
              Fe(e, l, j + dim * GetNumberOfDegreesOfFreedom(e)), <<"load", l>>)

RECURSIVE ElementLoadSlots(_, _, _, _, _)
ElementLoadSlots(S, l, e, j, dim) ==
    IF S.err # "none" \/ j >= GetNumberOfDegreesOfFreedom(e) THEN S
    ELSE ElementLoadSlots(ElementLoadSlot(S, l, e, j, dim), l, e, j + 1, dim)

\* Lines 490-509 and 517-534: the load is applied to the elements of targets.
RECURSIVE ElementLoadOn(_, _, _, _, _)
ElementLoadOn(S, l, targets, i, dim) ==
    IF S.err # "none" \/ i > Len(targets) THEN S
    ELSE ElementLoadOn(ElementLoadSlots(S, l, targets[i], 0, dim),
                       l, targets, i + 1, dim)

\* Lines 481-540
ElementLoad(S, l, dim) ==
    IF LoadElementEl(l) # <<>>
    THEN ElementLoadOn(S, l, LoadElementEl(l), 1, dim)
    ELSE ElementLoadOn(S, l, el, 1, dim)

\* Lines 545-551 with AddVectorValue in the place of SetVectorValue.
MFCLoadAccumulate(S, l, dim, g) ==
    Call(S, "AddVectorValue", NGFN + (IF Index[l] = Unassigned THEN g ELSE Index[l]),
         0, MFCRhs(l)[dim + 1], <<"load", l>>)

\* Lines 545-551.  An Index that was never assigned reads as the value g.
MFCLoad(S, l, dim, g) ==
    Call(S, "SetVectorValue", NGFN + (IF Index[l] = Unassigned THEN g ELSE Index[l]),
         0, MFCRhs(l)[dim + 1], <<"load", l>>)

\* Lines 436-558: one load of the container, by its class.
AssembleLoad(S, l, dim, g) ==
    CASE LoadClass(l) = "LoadNode"    -> NodeLoad(S, l, dim)
      [] LoadClass(l) = "LoadElement" -> ElementLoad(S, l, dim)
      [] LoadClass(l) = "LoadBCMFC"   -> MFCLoad(S, l, dim, g)
      [] OTHER                        -> S

\* Lines 430-559
RECURSIVE AssembleLoads(_, _, _, _)
AssembleLoads(S, i, dim, g) ==
    IF S.err # "none" \/ i > Len(load) THEN S
    ELSE AssembleLoads(AssembleLoad(S, load[i], dim, g), i + 1, dim, g)

\* The whole of AssembleF(dim): [ls, calls, err, at].
AssembleFResult(dim, g) ==
    LET S0 == [ls |-> ls, calls |-> <<>>, err |-> "none", at |-> NoEntity]
    IN  IF NothingToDoF(NGFN) THEN S0
        ELSE AssembleLoads(Call(S0, "InitializeVector", 0, 0, 0, NoEntity), 1, dim, g)

\* The values an Index that was never assigned may hold when AssembleF reads it.
IndexRead ==
    IF ~NothingToDoF(NGFN) /\ \E l \in Range(load) \cap MFCs : Index[l] = Unassigned
    THEN {0, 1} ELSE {0}

----------------------------------------------------------------------------
(* Solver::ReadAnyObjectFromStream.  The stream is f = [pos, eofbit,        *)
(* failbit] over the characters of the variable stream; pos counts from 0.  *)

\* The characters itkFEMUtility's whitespaces holds.
whitespaces == {" ", "\n"}

\* Line 57: f.getline(buf, 256, '>') stores at most 255 characters.
BufSize == 256

npos == -1

\* f.tellg(), line 52
Tellg(f) == IF f.failbit THEN -1 ELSE f.pos

\* SkipWhiteSpace(f), line 53: white space and comments (from '%' to the end
\* of the line) are passed over; looking past the last character sets eofbit.
RECURSIVE SkipWhiteSpace(_)
SkipWhiteSpace(f) ==
    IF f.failbit \/ f.eofbit THEN f
    ELSE IF f.pos >= Len(stream) THEN [f EXCEPT !.eofbit = TRUE]
    ELSE IF stream[f.pos + 1] \in whitespaces
         THEN SkipWhiteSpace([f EXCEPT !.pos = f.pos + 1])
    ELSE IF stream[f.pos + 1] = "%"
         THEN LET ends == {i \in f.pos + 1 .. Len(stream) : stream[i] = "\n"}
              IN  IF ends = {}
                  THEN [f EXCEPT !.pos = Len(stream), !.eofbit = TRUE]
                  ELSE SkipWhiteSpace(
                         [f EXCEPT !.pos = CHOOSE i \in ends : \A k \in ends : i <= k])
    ELSE f

\* f.get(), line 56: [f, c]; c = "" stands for the end-of-file value.
Get(f) ==
    IF f.failbit \/ f.eofbit
    THEN [f |-> [f EXCEPT !.failbit = TRUE], c |-> ""]
    ELSE IF f.pos >= Len(stream)
         THEN [f |-> [f EXCEPT !.eofbit = TRUE, !.failbit = TRUE], c |-> ""]
         ELSE [f |-> [f EXCEPT !.pos = f.pos + 1], c |-> stream[f.pos + 1]]

\* f.getline(buf, 256, '>'), line 57: [f, buf].  The delimiter is taken from
\* the stream and not stored.
GetLine(f) ==
    IF f.failbit \/ f.eofbit
    THEN [f |-> [f EXCEPT !.failbit = TRUE], buf |-> <<>>]
    ELSE LET stops == {i \in f.pos + 1 .. Len(stream) : stream[i] = ">"}
             stop  == IF stops = {} THEN Len(stream) + 1
                      ELSE CHOOSE i \in stops : \A k \in stops : i <= k
             n     == stop - (f.pos + 1)      \* characters before the stop
         IN  IF n >= BufSize - 1
             THEN [f   |-> [f EXCEPT !.pos = f.pos + BufSize - 1, !.failbit = TRUE],
                   buf |-> SubSeq(stream, f.pos + 1, f.pos + BufSize - 1)]
             ELSE IF stops = {}
             THEN [f   |-> [f EXCEPT !.pos = Len(stream), !.eofbit = TRUE,
                                     !.failbit = (n = 0)],
                   buf |-> SubSeq(stream, f.pos + 1, Len(stream))]
             ELSE [f   |-> [f EXCEPT !.pos = stop],
                   buf |-> SubSeq(stream, f.pos + 1, stop - 1)]

\* s.find_first_not_of(whitespaces), line 61; positions count from 0.
FindFirstNotOf(t) ==
    LET hits == {i \in 1..Len(t) : t[i] \notin whitespaces}
    IN  IF hits = {} THEN npos ELSE (CHOOSE i \in hits : \A k \in hits : i <= k) - 1

\* s.find_first_of(whitespaces, b), line 62; b = npos finds nothing.
FindFirstOf(t, b) ==
    LET hits == {i \in 1..Len(t) : t[i] \in whitespaces /\ b # npos /\ i - 1 >= b}
    IN  IF hits = {} THEN npos ELSE (CHOOSE i \in hits : \A k \in hits : i <= k) - 1

\* Lines 61-65: [thrown, s].  s.substr(b, e-b) throws std::out_of_range when
\* b is beyond the end of s, as npos is.
Token(t) ==
    LET b  == FindFirstNotOf(t)
        e0 == FindFirstOf(t, b)
        e  == IF e0 = npos THEN Len(t) ELSE e0
    IN  IF b = npos \/ b > Len(t)
        THEN [thrown |-> TRUE, s |-> <<>>]
        ELSE [thrown |-> FALSE, s |-> SubSeq(t, b + 1, e)]

\* FEMObjectFactory<FEMLightObject>::ClassName2ID, line 73: the classes that
\* are registered, and -1 for any other name.
ClassName2ID(s) == CASE s = <<"N">> -> 0
                     [] s = <<"E">> -> 1
                     [] s = <<"L">> -> 2
                     [] OTHER       -> -1

\* Lines 96-112: what the created object is given to read with.
ReadInfo(clID) == CASE clID = 1 -> "node,mat"
                    [] clID = 2 -> "node,el"
                    [] OTHER    -> "none"

\* f.seekg(l), line 140: nothing moves on a failed stream; a library of the
\* 2011 standard first clears eofbit (ext.clearEof), an older one does not.
Seekg(f, l, ext) ==
    IF f.failbit THEN f
    ELSE IF l < 0 THEN [f EXCEPT !.failbit = TRUE]
    ELSE [pos |-> l, eofbit |-> (f.eofbit /\ ~ext.clearEof), failbit |-> FALSE]

\* Lines 134-145: the stream is put back and FEMExceptionIO is thrown.
Out(f, l, entry, ext) ==
    [f |-> Seekg(f, l, ext), outcome |-> "FEMExceptionIO", entry |-> entry,
     l |-> l, cls |-> <<>>, info |-> "none"]

\* a->Read(f, info), lines 100, 106, 111: the object decodes its own fields.
\* It takes ext.n characters, it meets the end of the stream or not, and it
\* returns or throws.
ObjectRead(f, ext) ==
    LET to == IF f.pos + ext.n > Len(stream) THEN Len(stream) ELSE f.pos + ext.n
    IN  [f EXCEPT !.pos = to, !.eofbit = f.eofbit \/ (ext.hitEof /\ to = Len(stream))]

\* Lines 119-125: the catch block destroys the object and rethrows.
Rethrow(f, l, entry, s) ==
    [f |-> f, outcome |-> "rethrown", entry |-> entry, l |-> l, cls |-> s,
     info |-> ReadInfo(ClassName2ID(s))]

\* Lines 51-147, from the label start on.  ext holds what the code outside
\* this file decides: created (FEMObjectFactory::Create returns an object),
\* n, hitEof and throws (the object's Read), clearEof (the library's seekg).
RECURSIVE ReadFromStart(_, _, _)
ReadFromStart(f0, entry, ext) ==
    LET l  == Tellg(f0)
        f1 == SkipWhiteSpace(f0)
    IN  IF f1.eofbit
        THEN [f |-> f1, outcome |-> "end", entry |-> entry, l |-> l,
              cls |-> <<>>, info |-> "none"]
        ELSE LET g == Get(f1)
             IN  IF g.c # "<" THEN Out(g.f, l, entry, ext)
                 ELSE LET t   == GetLine(g.f)
                          tok == Token(t.buf)
                      IN  IF tok.thrown
                          THEN [f |-> t.f, outcome |-> "std::out_of_range",
                                entry |-> entry, l |-> l, cls |-> <<>>, info |-> "none"]
                          ELSE IF tok.s = <<"E", "N", "D">>
                          THEN ReadFromStart(t.f, entry, ext)
                          ELSE IF ClassName2ID(tok.s) < 0 THEN Out(t.f, l, entry, ext)
                          ELSE IF ~ext.created THEN Out(t.f, l, entry, ext)
                          ELSE IF ext.throws
                          THEN Rethrow(ObjectRead(t.f, ext), l, entry, tok.s)
                          ELSE [f |-> ObjectRead(t.f, ext), outcome |-> "object",
                                entry |-> entry, l |-> l, cls |-> tok.s,
                                info |-> ReadInfo(ClassName2ID(tok.s))]

----------------------------------------------------------------------------
(* The solver as a state machine: the containers are edited directly (they  *)
(* are public members) and the operations are called in any order.          *)

NoRead == [outcome |-> "none", entry |-> 0, l |-> 0, cls |-> <<>>, info |-> "none"]

Snapshot == [ls |-> ls, NMFC |-> NMFC, Index |-> Index, NGFN |-> NGFN]

\* A solver whose containers were filled with the element list e and the load
\* list q and on which no operation has run.
Populated(e, q) ==
    /\ node = Nodes
    /\ el = e
    /\ load = q
    /\ m_elements = [n \in Nodes |-> {}]
    /\ dof = [x \in Elems |-> ClearDegreesOfFreedom(x)]
    /\ DOFCounter = ResetGlobalDOFCounter
    /\ NGFN = 0
    /\ NMFC = 0
    /\ Index = [l \in MFCs |-> Unassigned]
    /\ ls = [order |-> 0, K |-> NoEntries, F |-> NoEntries]
    /\ calls = <<>>
    /\ err = "none"
    /\ last = [op |-> "none", dim |-> 0, at |-> NoEntity]
    /\ pre = [ls |-> ls, NMFC |-> 0, Index |-> Index, NGFN |-> 0]
    /\ gfnDone = FALSE
    /\ kDone = FALSE
    /\ edits = 0
    /\ stream = <<>>
    /\ pos = 0
    /\ eofbit = FALSE
    /\ failbit = FALSE
    /\ rd = NoRead

Init ==
    \E e \in SeqsUpTo(Elems, MaxEls), q \in SeqsUpTo(Loads, MaxLoads) :
        Populated(e, q)

\* The load lists of the behaviours that edit the element and node containers:
\* no load, or one.
OneLoad == {<<>>} \cup {<<l>> : l \in Loads}

InitEdit ==
    \E e \in SeqsUpTo(Elems, MaxEls), q \in OneLoad : Populated(e, q)

Edited ==
    /\ edits < MaxEdits
    /\ edits' = edits + 1
    /\ calls' = <<>>
    /\ err' = "none"
    /\ last' = [op |-> "edit", dim |-> 0, at |-> NoEntity]
    /\ pre' = Snapshot
    /\ UNCHANGED <<m_elements, dof, DOFCounter, NGFN, NMFC, Index, ls>>
    /\ UNCHANGED streamVars

\* el.push_back(e)
PushBackElement(e) ==
    /\ e \notin Range(el)
    /\ Len(el) < MaxEls
    /\ el' = Append(el, e)
    /\ gfnDone' = FALSE
    /\ Edited
    /\ UNCHANGED <<node, load, kDone>>

\* el.pop_back()
PopBackElement ==
    /\ el # <<>>
    /\ el' = SubSeq(el, 1, Len(el) - 1)
    /\ gfnDone' = FALSE
    /\ Edited
    /\ UNCHANGED <<node, load, kDone>>

\* node.erase(n)
EraseNode(n) ==
    /\ n \in node
    /\ node' = node \ {n}
    /\ Edited
    /\ UNCHANGED <<el, load, gfnDone, kDone>>

GenerateGFN ==
    \E r \in {GenerateGFNResult} :
        /\ m_elements' = r.m_elements
        /\ dof' = r.dof
        /\ DOFCounter' = r.counter
        /\ NGFN' = r.NGFN
        /\ err' = r.err
        /\ calls' = <<>>
        /\ last' = [op |-> "GenerateGFN", dim |-> 0, at |-> NoEntity]
        /\ pre' = Snapshot
        /\ gfnDone' = TRUE
        /\ UNCHANGED <<node, el, load, NMFC, Index, ls, kDone, edits>>
        /\ UNCHANGED streamVars

AssembleK ==
    \E r \in {AssembleKResult} :
        /\ NMFC' = r.NMFC
        /\ Index' = r.Index
        /\ ls' = r.S.ls
        /\ calls' = r.S.calls
        /\ err' = r.S.err
        /\ last' = [op |-> "AssembleK", dim |-> 0, at |-> r.S.at]
        /\ pre' = Snapshot
        /\ kDone' = (~NothingToDoK(NGFN) /\ r.S.err = "none")
        /\ UNCHANGED <<node, el, load, m_elements, dof, DOFCounter, NGFN, gfnDone,
                       edits>>
        /\ UNCHANGED streamVars

AssembleF(dim) ==
    \E g \in IndexRead : \E S \in {AssembleFResult(dim, g)} :
        /\ ls' = S.ls
        /\ calls' = S.calls
        /\ err' = S.err
        /\ last' = [op |-> "AssembleF", dim |-> dim, at |-> S.at]
        /\ pre' = Snapshot
        /\ UNCHANGED <<node, el, load, m_elements, dof, DOFCounter, NGFN, NMFC,
                       Index, gfnDone, kDone, edits>>
        /\ UNCHANGED streamVars

Next ==
    \/ GenerateGFN
    \/ AssembleK
    \/ \E dim \in Dims : AssembleF(dim)

Spec == Init /\ [][Next]_vars

NextEdit ==
    \/ \E e \in Elems : PushBackElement(e)
    \/ PopBackElement
    \/ \E n \in Nodes : EraseNode(n)
    \/ GenerateGFN
    \/ AssembleK
    \/ \E dim \in Dims : AssembleF(dim)

SpecEdit == InitEdit /\ [][NextEdit]_vars

----------------------------------------------------------------------------
(* Reading objects off a stream, one call of ReadAnyObjectFromStream after  *)
(* the other.                                                               *)

\* The pieces the streams are made of.
Pieces == { <<" ">>, <<"%", "c", "\n">>, <<"<", "E", "N", "D", ">">>,
            <<"<", "N", ">">>, <<"<", " ", "E", " ", ">">>, <<"<", "L", ">", "1">>,
            <<"<", "X", ">">>, <<"<", ">">>, <<"<", " ", ">">>, <<"x">>,
            <<"<", "X">>, <<"<">> }

RECURSIVE Concat(_)
Concat(q) == IF q = <<>> THEN <<>> ELSE Head(q) \o Concat(Tail(q))

Streams == {Concat(q) : q \in UNION {[1..k -> Pieces] : k \in 0..MaxPieces}}

Externals == [created : BOOLEAN, throws : BOOLEAN, n : 0..MaxFieldChars,
              hitEof : BOOLEAN, clearEof : BOOLEAN]

InitRead ==
    /\ node = Nodes
    /\ el = <<>>
    /\ load = <<>>
    /\ m_elements = [n \in Nodes |-> {}]
    /\ dof = [x \in Elems |-> ClearDegreesOfFreedom(x)]
    /\ DOFCounter = ResetGlobalDOFCounter
    /\ NGFN = 0
    /\ NMFC = 0
    /\ Index = [l \in MFCs |-> Unassigned]
    /\ ls = [order |-> 0, K |-> NoEntries, F |-> NoEntries]
    /\ calls = <<>>
    /\ err = "none"
    /\ last = [op |-> "none", dim |-> 0, at |-> NoEntity]
    /\ pre = [ls |-> ls, NMFC |-> 0, Index |-> Index, NGFN |-> 0]
    /\ gfnDone = FALSE
    /\ kDone = FALSE
    /\ edits = 0
    /\ stream \in Streams
    /\ pos = 0
    /\ eofbit = FALSE
    /\ failbit = FALSE
    /\ rd = NoRead

ReadAnyObjectFromStream ==
    \E ext \in Externals :
      \E r \in {ReadFromStart([pos |-> pos, eofbit |-> eofbit, failbit |-> failbit],
                              pos, ext)} :
        /\ pos' = r.f.pos
        /\ eofbit' = r.f.eofbit
        /\ failbit' = r.f.failbit
        /\ rd' = [outcome |-> r.outcome, entry |-> r.entry, l |-> r.l,
                  cls |-> r.cls, info |-> r.info]
        /\ UNCHANGED stream
        /\ UNCHANGED solverVars

NextRead == ReadAnyObjectFromStream

SpecRead == InitRead /\ [][NextRead]_vars

----------------------------------------------------------------------------
(* Properties.  The call log of the last operation is calls; last names the *)
(* operation, its dimension and the entity it threw at; pre holds what the  *)
(* operation started from.                                                  *)

Mutations == {"AddMatrixValue", "SetMatrixValue", "AddVectorValue", "SetVectorValue"}

SizeError == "Illegal size of a force vector in LoadNode object!"

LoadMFCs == Range(load) \cap MFCs

\* The global DOF of term t of constraint l.
TermGFN(l, t) == GetDegreeOfFreedom(dof, MFCLhs(l)[t].m_element, MFCLhs(l)[t].dof)

\* Every local DOF of element e has a number below NGFN.
ElementInRange(e) ==
    \A j \in 0..(GetNumberOfDegreesOfFreedom(e) - 1) :
        GetDegreeOfFreedom(dof, e, j) < NGFN

\* Every DOF that load l refers to when it is assembled has a number below NGFN.
LoadInRange(l) ==
    CASE LoadClass(l) = "LoadNode" ->
           \A d \in 0..(GetNumberOfDegreesOfFreedomPerPoint(NodeLoadElement(l)) - 1) :
              GetDegreeOfFreedomAtPoint(dof, NodeLoadElement(l), NodeLoadPt(l), d) < NGFN
      [] LoadClass(l) = "LoadElement" ->
           \A e \in (IF LoadElementEl(l) # <<>> THEN Range(LoadElementEl(l))
                     ELSE Range(el)) : ElementInRange(e)
      [] LoadClass(l) = "LoadBCMFC" ->
           \A t \in 1..Len(MFCLhs(l)) : TermGFN(l, t) < NGFN
      [] OTHER -> TRUE

\* C1 (as claimed): when AssembleK or AssembleF throws "Illegal GFN!" at an
\* element, constraint or load, no AddMatrixValue, SetMatrixValue or
\* AddVectorValue call for that same entity has been made before.
C1_NoCallForEntityBeforeError ==
    err = "Illegal GFN!" =>
        \A i \in 1..Len(calls) : calls[i].ent # last.at

\* C1 (amended): the DOF numbers are checked access by access.  No call on the
\* linear system carries a DOF number >= NGFN; an operation that ends without
\* error has met no DOF >= NGFN; the entity the error is thrown at does have
\* such a DOF, and no call for another entity follows a call made for it.
\* Calls for earlier, in-range entries of that entity may have been made.
C1_IllegalGFNStopsAtAccess ==
    last.op \in {"AssembleK", "AssembleF"} =>
        /\ \A i \in 1..Len(calls) :
              LET c == calls[i]
              IN  /\ c.op = "AddMatrixValue" => c.i < NGFN /\ c.j < NGFN
                  /\ c.op = "SetMatrixValue" =>
                        \/ c.i < NGFN /\ c.j >= NGFN
                        \/ c.j < NGFN /\ c.i >= NGFN
                  /\ c.op = "AddVectorValue" => c.i < NGFN
        /\ (last.op = "AssembleK" /\ err = "none" /\ NGFN > 0) =>
              /\ \A e \in Range(el) : ElementInRange(e)
              /\ \A l \in LoadMFCs : LoadInRange(l)
        /\ (last.op = "AssembleF" /\ err = "none" /\ NGFN > 0) =>
              \A l \in Range(load) : LoadClass(l) # "LoadBCMFC" => LoadInRange(l)
        /\ err = "Illegal GFN!" =>
              /\ last.at[1] = "el" => ~ElementInRange(last.at[2])
              /\ last.at[1] = "load" => ~LoadInRange(last.at[2])
              /\ \A i, j \in 1..Len(calls) :
                    (i < j /\ calls[i].ent = last.at) => calls[j].ent = last.at

\* C1 witness: an "Illegal GFN!" error thrown at an entity for which calls had
\* already changed the linear system.
C1_Witness ==
    /\ err = "Illegal GFN!"
    /\ \E i \in 1..Len(calls) : calls[i].ent = last.at /\ calls[i].op \in Mutations

\* C4: after GenerateGFN, two elements of the container that share a node and
\* a displacement component map it to the same global DOF number; on every
\* call, also one that follows an earlier numbering and an edit.
C4_SharedDOFIdentical ==
    last.op = "GenerateGFN" =>
        \A e1, e2 \in Range(el) :
          \A p1 \in 0..(GetNumberOfPoints(e1) - 1), p2 \in 0..(GetNumberOfPoints(e2) - 1) :
            \A comp \in 0..1 :
               ( /\ ElPoints(e1)[p1 + 1] = ElPoints(e2)[p2 + 1]
                 /\ comp < GetNumberOfDegreesOfFreedomPerPoint(e1)
                 /\ comp < GetNumberOfDegreesOfFreedomPerPoint(e2) )
               => GetDegreeOfFreedomAtPoint(dof, e1, p1, comp)
                    = GetDegreeOfFreedomAtPoint(dof, e2, p2, comp)

\* C4 witness: a second numbering, with another outcome than the first, of a
\* container in which two elements share node 2.
C4_Witness ==
    /\ last.op = "GenerateGFN"
    /\ pre.NGFN > 0
    /\ pre.NGFN # NGFN
    /\ {1, 2} \subseteq Range(el)
    /\ GetDegreeOfFreedomAtPoint(dof, 1, 1, 0) = GetDegreeOfFreedomAtPoint(dof, 2, 0, 0)
    /\ GetDegreeOfFreedomAtPoint(dof, 1, 1, 0) # InvalidDegreeOfFreedomID

\* C5: with NGFN = 0, AssembleK and AssembleF make no call on the linear
\* system and leave it, NMFC and every Index as they were.
C5_NoDOFNoOp ==
    (last.op \in {"AssembleK", "AssembleF"} /\ NGFN <= 0) =>
        /\ calls = <<>>
        /\ ls = pre.ls
        /\ NMFC = pre.NMFC
        /\ Index = pre.Index
        /\ err = "none"

\* C5 witness: AssembleK called after the numbering of a model without
\* elements, with a constraint among the loads.
C5_Witness ==
    /\ last.op = "AssembleK"
    /\ gfnDone
    /\ el = <<>>
    /\ NGFN = 0
    /\ LoadMFCs # {}

\* C6 (as claimed): when AssembleF throws the size error of a nodal load, the
\* vector is as it was when the call of AssembleF began.
C6_VectorUnchangedAtSizeError ==
    (last.op = "AssembleF" /\ err = SizeError) => ls.F = pre.ls.F

\* C6 (amended): the size error of a nodal load is thrown before any call on
\* the linear system for that load; the vector may have been initialized and
\* changed for the loads before it.  A call that ends without error has met no
\* nodal load of illegal size.
C6_NoCallForLoadAtSizeError ==
    last.op = "AssembleF" =>
        /\ err = SizeError =>
              /\ last.at[1] = "load"
              /\ LoadClass(last.at[2]) = "LoadNode"
              /\ IllegalSize(last.at[2])
              /\ \A i \in 1..Len(calls) : calls[i].ent # last.at
        /\ (err = "none" /\ NGFN > 0) =>
              \A l \in Range(load) : LoadClass(l) = "LoadNode" => ~IllegalSize(l)

\* C6 witness: the size error thrown after an earlier load has changed the
\* vector.
C6_Witness ==
    /\ last.op = "AssembleF"
    /\ err = SizeError
    /\ \E i \in 1..Len(calls) : calls[i].op \in {"AddVectorValue", "SetVectorValue"}

\* The number of constraints among the first n loads of the container.
MFCsBefore(n) == Cardinality({i \in 1..n : LoadClass(load[i]) = "LoadBCMFC"})

\* C7: when AssembleK runs (NGFN > 0), the k-th constraint of the load list
\* gets ordinal k, counted from 0; NMFC is the number of constraints; the
\* Index of a constraint outside the list is left alone; and the first calls
\* on the linear system are SetSystemOrder(NGFN + NMFC) and InitializeMatrix,
\* before any matrix entry is written.
C7_OrdinalsInListOrder ==
    (last.op = "AssembleK" /\ NGFN > 0) =>
        /\ \A i \in 1..Len(load) :
              LoadClass(load[i]) = "LoadBCMFC" => Index[load[i]] = MFCsBefore(i - 1)
        /\ \A l1, l2 \in LoadMFCs : l1 # l2 => Index[l1] # Index[l2]
        /\ \A l \in MFCs \ Range(load) : Index[l] = pre.Index[l]
        /\ NMFC = MFCsBefore(Len(load))
        /\ Len(calls) >= 2
        /\ calls[1].op = "SetSystemOrder" /\ calls[1].i = NGFN + NMFC
        /\ calls[2].op = "InitializeMatrix"
        /\ \A i \in 3..Len(calls) : calls[i].op \in {"AddMatrixValue", "SetMatrixValue"}
        /\ ls.order = NGFN + NMFC

\* C7 witness: two constraints in the list, the second one first in the pool.
C7_Witness ==
    /\ last.op = "AssembleK"
    /\ NGFN > 0
    /\ load = <<6, 5>>
    /\ Index[6] = 0
    /\ Index[5] = 1
    /\ NMFC = 2

\* C8 (as claimed): a numbering that finds no DOF (NGFN <= 0) does not end
\* normally: the empty system is reported to the caller.
C8_EmptySystemReported ==
    (last.op = "GenerateGFN" /\ NGFN <= 0) => err # "none"

\* The contributions to entry (a, b): element positions and local (j, k).
Contributions(a, b) ==
    {c \in UNION {{<<i, j, k>> : j, k \in 0..(GetNumberOfDegreesOfFreedom(el[i]) - 1)} :
                     i \in 1..Len(el)} :
        /\ GetDegreeOfFreedom(dof, el[c[1]], c[2]) = a
        /\ GetDegreeOfFreedom(dof, el[c[1]], c[3]) = b}

RECURSIVE SumKe(_)
SumKe(C) ==
    IF C = {} THEN 0
    ELSE LET c == CHOOSE x \in C : TRUE
         IN  Ke(el[c[1]], c[2], c[3]) + SumKe(C \ {c})

\* C9: after AssembleK has ended without error, entry (a, b) with a, b < NGFN
\* is the sum of the local stiffness entries mapped to it; an entry is held
\* only where a nonzero local entry went, and no AddMatrixValue call carries
\* zero; the constraint step writes only entries with exactly one index at or
\* beyond NGFN, so never a diagonal entry (NGFN+m, NGFN+m).
C9_StiffnessIsSumOfElements ==
    (last.op = "AssembleK" /\ err = "none" /\ NGFN > 0) =>
        /\ \A a, b \in 0..(NGFN - 1) :
              /\ MatGet(ls, a, b) = SumKe(Contributions(a, b))
              /\ <<a, b>> \in DOMAIN ls.K =>
                    \E c \in Contributions(a, b) : Ke(el[c[1]], c[2], c[3]) # 0
        /\ \A i \in 1..Len(calls) :
              /\ calls[i].op = "AddMatrixValue" =>
                    calls[i].v # 0 /\ calls[i].ent[1] = "el"
              /\ calls[i].op = "SetMatrixValue" =>
                    /\ calls[i].ent[1] = "load"
                    /\ calls[i].i >= NGFN \/ calls[i].j >= NGFN
                    /\ calls[i].i # calls[i].j
        /\ \A m \in 0..(NMFC - 1) : <<NGFN + m, NGFN + m>> \notin DOMAIN ls.K

\* C9 witness: elements 1 and 2 assembled, both contributing to the entry of
\* the node they share, with a constraint among the loads.
C9_Witness ==
    /\ last.op = "AssembleK"
    /\ err = "none"
    /\ el = <<1, 2>>
    /\ MatGet(ls, 1, 1) = 3
    /\ MatGet(ls, 0, 1) = -1
    /\ <<1, 2>> \notin DOMAIN ls.K
    /\ NMFC = 1

\* C3 (as claimed): after AssembleK has ended without error, for every term of
\* every constraint the matrix holds the term's coefficient at
\* (d, NGFN+m) and at (NGFN+m, d).
C3_EveryTermCoefficientHeld ==
    (last.op = "AssembleK" /\ err = "none" /\ NGFN > 0) =>
        \A l \in LoadMFCs : \A t \in 1..Len(MFCLhs(l)) :
            /\ MatGet(ls, TermGFN(l, t), NGFN + Index[l]) = MFCLhs(l)[t].value
            /\ MatGet(ls, NGFN + Index[l], TermGFN(l, t)) = MFCLhs(l)[t].value

\* The last term of constraint l that resolves to the global DOF of term t.
LastTermAt(l, t) ==
    CHOOSE u \in 1..Len(MFCLhs(l)) :
        /\ TermGFN(l, u) = TermGFN(l, t)
        /\ \A w \in 1..Len(MFCLhs(l)) : TermGFN(l, w) = TermGFN(l, t) => w <= u

\* C3 (amended): after AssembleK has ended without error, for every term of
\* every constraint the entries (d, NGFN+m) and (NGFN+m, d) hold one and the
\* same value: the coefficient of the last term of that constraint that
\* resolves to d, which is the term's own coefficient when no later term of
\* the constraint resolves to d.
C3_LastTermCoefficientHeld ==
    (last.op = "AssembleK" /\ err = "none" /\ NGFN > 0) =>
        \A l \in LoadMFCs : \A t \in 1..Len(MFCLhs(l)) :
            /\ MatGet(ls, TermGFN(l, t), NGFN + Index[l])
                 = MFCLhs(l)[LastTermAt(l, t)].value
            /\ MatGet(ls, NGFN + Index[l], TermGFN(l, t))
                 = MFCLhs(l)[LastTermAt(l, t)].value

\* C3 witness: a constraint assembled of which two terms with different
\* coefficients resolve to the same global DOF.
C3_Witness ==
    /\ last.op = "AssembleK"
    /\ err = "none"
    /\ NGFN > 0
    /\ \E l \in LoadMFCs : \E t, u \in 1..Len(MFCLhs(l)) :
          /\ t < u
          /\ TermGFN(l, t) = TermGFN(l, u)
          /\ MFCLhs(l)[t].value # MFCLhs(l)[u].value

\* C10: when AssembleF(dim) ends without error after AssembleK has assembled
\* the matrix without error, the vector holds rhs[dim] of every constraint at
\* NGFN + its ordinal; the only calls at indices >= NGFN are the
\* SetVectorValue calls of the constraints, the nodal and element loads
\* accumulate below NGFN, and a load of an unknown class causes no call.
C10_ConstraintRhsOverwritten ==
    (last.op = "AssembleF" /\ err = "none" /\ kDone) =>
        /\ \A l \in LoadMFCs : VecGet(ls, NGFN + Index[l]) = MFCRhs(l)[last.dim + 1]
        /\ \A i \in 1..Len(calls) :
              /\ calls[i].op = "AddVectorValue" =>
                    /\ calls[i].i < NGFN
                    /\ LoadClass(calls[i].ent[2]) \in {"LoadNode", "LoadElement"}
              /\ calls[i].op = "SetVectorValue" =>
                    /\ calls[i].i >= NGFN
                    /\ LoadClass(calls[i].ent[2]) = "LoadBCMFC"
              /\ calls[i].op \in {"AddVectorValue", "SetVectorValue", "InitializeVector"}
              /\ calls[i].ent[1] = "load" => LoadClass(calls[i].ent[2]) # "Load"
        /\ calls # <<>> /\ calls[1].op = "InitializeVector"

\* C10 witness: a constraint with a nonzero right-hand side set after a nodal
\* or element load has accumulated into the vector.
C10_Witness ==
    /\ last.op = "AssembleF"
    /\ err = "none"
    /\ kDone
    /\ \E i, j \in 1..Len(calls) :
          /\ i < j
          /\ calls[i].op = "AddVectorValue"
          /\ calls[j].op = "SetVectorValue"
          /\ calls[j].v # 0

\* The outcomes of ReadAnyObjectFromStream that are a failure.
ReadFailures == {"FEMExceptionIO", "rethrown", "std::out_of_range"}

\* C2 (as claimed): every failing attempt of ReadAnyObjectFromStream raises a
\* read error (FEMExceptionIO, or the exception of the object's own Read) and
\* leaves the stream where it was when the attempt began, which is taken to
\* be the position l remembered at the label start.
C2_FailureRewindsStream ==
    rd.outcome \in ReadFailures =>
        /\ rd.outcome \in {"FEMExceptionIO", "rethrown"}
        /\ pos = rd.l

====
